---------------------------- MODULE Spec2Model ----------------------------
(***************************************************************************)
(* A model of the indexes of src/code/index.py: IndexedWordForms (the      *)
(* lemma / document indexes and the single-sense filter) and               *)
(* BTypePairDictionary (the index on pairs of basic types), with the       *)
(* query operations the browser uses.                                      *)
(*                                                                         *)
(* A Python dict is modelled as the sequence of its items in insertion     *)
(* order, each item a record [k |-> key, v |-> value]; a Python list is a  *)
(* sequence.  A WordForm is a record [id, lemma, fname, synset]: id is the *)
(* object's identity, fname stands for wf.sent.fname and synset for        *)
(* wf.synset.btypes, or NoSynset when wf.synset is None.                   *)
(*                                                                         *)
(* Further down are the construction of a Semcor instance in               *)
(* src/code/semcor.py (the compiled files, the corpus lemma index, the     *)
(* mapping file and the synsets it gives the WordForms, then the indexes   *)
(* of the common nouns), SemcorFile.collect_forms over the paragraphs,     *)
(* sentences and tokens of src/code/objects.py, and WordForm.kwic.  Each   *)
(* has a specification of its own: Spec, SpecTyped and SpecQuery for the   *)
(* indexes, SpecSemcor, SpecFile and SpecKwic.  The displays and lookups   *)
(* of src/code/browse.py follow in SpecBrowse and SpecLookup, and          *)
(* SpecNouns runs the noun index under both of its callers.                *)
(***************************************************************************)
EXTENDS Integers, Sequences, FiniteSets, TLC

\* ------------------------------------------------------------------ bounds

\* The longest list of WordForms handed to IndexedWordForms when a WordForm
\* may have any synset or none.
MaxWords == 3

\* The longest list of WordForms when each has a synset with one basic type.
MaxTypedWords == 4

\* ---------------------------------------------------------- the input sets

Lemmas == {"bank", "walk"}

\* The loaded files, in the order of SEMCOR_FILES.
Fnames == <<"br-a01", "br-a02">>

\* wf.synset is None
NoSynset == "None"

\* Basic types: three single ones and one with a space in it.
BTypes == {"act", "art", "hum", "act evt"}

\* Character codes of the letters the basic types are written with.
Ord(c) ==
    CASE c = " " -> 32
      [] c = "a" -> 97
      [] c = "c" -> 99
      [] c = "e" -> 101
      [] c = "h" -> 104
      [] c = "m" -> 109
      [] c = "r" -> 114
      [] c = "t" -> 116
      [] c = "u" -> 117
      [] c = "v" -> 118

\* A basic type as the sequence of its characters.
Chars(bt) ==
    CASE bt = "act"     -> <<"a", "c", "t">>
      [] bt = "art"     -> <<"a", "r", "t">>
      [] bt = "hum"     -> <<"h", "u", "m">>
      [] bt = "act evt" -> <<"a", "c", "t", " ", "e", "v", "t">>

\* ' ' in bt
HasSpace(bt) == \E i \in DOMAIN Chars(bt) : Chars(bt)[i] = " "

\* Python's s < t on strings: the first differing character decides, and a
\* proper prefix is smaller.
StrLess(s, t) ==
    LET cs == Chars(s)
        ct == Chars(t)
    IN  \/ \E i \in DOMAIN cs \cap DOMAIN ct :
              /\ \A j \in 1..(i-1) : cs[j] = ct[j]
              /\ Ord(cs[i]) < Ord(ct[i])
        \/ /\ Len(cs) < Len(ct)
           /\ \A j \in DOMAIN cs : cs[j] = ct[j]

\* ------------------------------------------------------------------- dicts

Range(s) == {s[i] : i \in DOMAIN s}

EmptyDict == <<>>

Keys(d) == {d[i].k : i \in DOMAIN d}

Has(d, key) == \E i \in DOMAIN d : d[i].k = key

\* d[key], for a key of d
Get(d, key) == d[CHOOSE i \in DOMAIN d : d[i].k = key].v

\* d[key] = value
Put(d, key, value) ==
    IF Has(d, key)
    THEN [i \in DOMAIN d |-> IF d[i].k = key THEN [k |-> key, v |-> value] ELSE d[i]]
    ELSE Append(d, [k |-> key, v |-> value])

\* d.setdefault(key, value)
SetDefault(d, key, value) ==
    IF Has(d, key) THEN d ELSE Append(d, [k |-> key, v |-> value])

\* d.values(), in the order of the items
Values(d) == [i \in DOMAIN d |-> d[i].v]

\* How often x occurs in a list.
Count(s, x) == Cardinality({i \in DOMAIN s : s[i] = x})

RECURSIVE Concat(_)
Concat(ss) == IF ss = <<>> THEN <<>> ELSE Head(ss) \o Concat(Tail(ss))

\* --------------------------------------------------------------- index.py

\* setdefault and insert(0, wf): the WordForm goes to the front of its list.
AppendTo_prepending(idx, key, wf) ==
    LET d == SetDefault(idx, key, <<>>)
    IN  Put(d, key, <<wf>> \o Get(d, key))

\* idx.setdefault(key, []).append(wf)
AppendTo(idx, key, wf) ==
    LET d == SetDefault(idx, key, <<>>)
    IN  Put(d, key, Append(Get(d, key), wf))

RECURSIVE LemmaIndexLoop(_, _)
LemmaIndexLoop(idx, wordforms) ==
    IF wordforms = <<>> THEN idx
    ELSE LemmaIndexLoop(AppendTo(idx, Head(wordforms).lemma, Head(wordforms)),
                        Tail(wordforms))

create_lemma_index(wordforms) == LemmaIndexLoop(EmptyDict, wordforms)

RECURSIVE FnameIndexLoop(_, _)
FnameIndexLoop(idx, wordforms) ==
    IF wordforms = <<>> THEN idx
    ELSE FnameIndexLoop(AppendTo(idx, Head(wordforms).fname, Head(wordforms)),
                        Tail(wordforms))

create_fname_index(wordforms) == FnameIndexLoop(EmptyDict, wordforms)

\* The items of a two-level index in the order of the nested loops
\* "for k1 in idx: for k2 in idx[k1]", each with its key path and leaf.
Paths(idx) ==
    Concat([i \in DOMAIN idx |->
              [j \in DOMAIN idx[i].v |->
                 [k1 |-> idx[i].k, k2 |-> idx[i].v[j].k, leaf |-> idx[i].v[j].v]]])

\* invert_index with "result[lemma] = {fname: ...}" in place of the
\* setdefault and the item assignment: a later file replaces the earlier ones.
RECURSIVE InvertLoopOverwriting(_, _)
InvertLoopOverwriting(result, paths) ==
    IF paths = <<>> THEN result
    ELSE LET p == Head(paths)
         IN  InvertLoopOverwriting(Put(result, p.k2, <<[k |-> p.k1, v |-> p.leaf]>>),
                                   Tail(paths))

invert_index_overwriting(idx) == InvertLoopOverwriting(EmptyDict, Paths(idx))

RECURSIVE InvertLoop(_, _)
InvertLoop(result, paths) ==
    IF paths = <<>> THEN result
    ELSE LET p == Head(paths)
             r == SetDefault(result, p.k2, EmptyDict)
         IN  InvertLoop(Put(r, p.k2, Put(Get(r, p.k2), p.k1, p.leaf)), Tail(paths))

invert_index(idx) == InvertLoop(EmptyDict, Paths(idx))

\* set([wf.synset.btypes for wf in wfs])
BtypesOf(wfs) == {wfs[i].synset : i \in DOMAIN wfs}

HasSynset(wf) == wf.synset # NoSynset

\* The filter counting the labels before it removes the WordForms without a
\* synset, None being a label of its own.
filter_sub_index_counting_first(idx) ==
    LET kept(item) == [k |-> item.k, v |-> SelectSeq(item.v, HasSynset)]
        twoTypes(i) == Cardinality(BtypesOf(idx[i].v)) > 1
        retained == {i \in DOMAIN idx : twoTypes(i)}
        RECURSIVE From(_)
        From(i) == IF i > Len(idx) THEN <<>>
                   ELSE (IF i \in retained THEN <<kept(idx[i])>> ELSE <<>>) \o From(i + 1)
    IN  From(1)

\* The filter keeping the lists it retains whole: the WordForms without a
\* synset are left out of the count only.
filter_sub_index_keeping_synsetless(idx) ==
    LET twoTypes(item) == Cardinality(BtypesOf(SelectSeq(item.v, HasSynset))) > 1
    IN  SelectSeq(idx, twoTypes)

filter_sub_index(idx) ==
    LET kept(item) == [k |-> item.k, v |-> SelectSeq(item.v, HasSynset)]
        twoTypes(item) == Cardinality(BtypesOf(item.v)) > 1
    IN  SelectSeq([i \in DOMAIN idx |-> kept(idx[i])], twoTypes)

\* The filter without its last step: a lemma left with no document stays.
filter_lemma_fname_index_keeping_empty(idx) ==
    [i \in DOMAIN idx |-> [k |-> idx[i].k, v |-> filter_sub_index(idx[i].v)]]

filter_lemma_fname_index(idx) ==
    LET nonEmpty(item) == item.v # EmptyDict
    IN  SelectSeq([i \in DOMAIN idx |-> [k |-> idx[i].k, v |-> filter_sub_index(idx[i].v)]],
                  nonEmpty)

\* sorted(S) for a set of basic types
RECURSIVE Sorted(_)
Sorted(S) ==
    IF S = {} THEN <<>>
    ELSE LET m == CHOOSE x \in S : \A y \in S : x = y \/ StrLess(x, y)
         IN  <<m>> \o Sorted(S \ {m})

\* The pairs with "if i != j" in place of "if i < j".
PairsOfSorted_unequal(sequence) ==
    LET n == Len(sequence)
        ij == [m \in 1..(n * n) |-> <<((m - 1) \div n) + 1, ((m - 1) % n) + 1>>]
        unequal(p) == p[1] # p[2]
        sel == SelectSeq(ij, unequal)
    IN  [m \in DOMAIN sel |-> <<sequence[sel[m][1]], sequence[sel[m][2]]>>]

\* The pairs of neighbours only: "if j == i + 1" in place of "if i < j".
PairsOfSorted_neighbours(sequence) ==
    LET n == Len(sequence)
        ij == [m \in 1..(n * n) |-> <<((m - 1) \div n) + 1, ((m - 1) % n) + 1>>]
        next(p) == p[2] = p[1] + 1
        sel == SelectSeq(ij, next)
    IN  [m \in DOMAIN sel |-> <<sequence[sel[m][1]], sequence[sel[m][2]]>>]

\* [(sequence[i], sequence[j]) for i in indices for j in indices if i < j]
PairsOfSorted(sequence) ==
    LET n == Len(sequence)
        ij == [m \in 1..(n * n) |-> <<((m - 1) \div n) + 1, ((m - 1) % n) + 1>>]
        less(p) == p[1] < p[2]
        sel == SelectSeq(ij, less)
    IN  [m \in DOMAIN sel |-> <<sequence[sel[m][1]], sequence[sel[m][2]]>>]

pairs(sequence) == PairsOfSorted(Sorted(Range(sequence)))

\* The sorted basic types without the test for a space.
SpaceFreeSorted_unfiltered(btypes) == Sorted(btypes)

\* tuple(sorted(bt for bt in btypes if not ' ' in bt))
SpaceFreeSorted(btypes) == Sorted({bt \in btypes : ~HasSpace(bt)})

\* The pairs of basic types of one lemma/document entry
btype_pairs(wfs) == pairs(SpaceFreeSorted(BtypesOf(wfs)))

NewPairRecord == [ALL |-> <<>>, LEMMAS |-> EmptyDict]

\* The WordForms of the entry without the test for the pair.
filterd_wfs_unfiltered(btype_pair, wfs) == wfs

\* [wf for wf in wfs if wf.synset.btypes in btype_pair]
filterd_wfs(btype_pair, wfs) ==
    LET inPair(wf) == wf.synset \in Range(btype_pair)
    IN  SelectSeq(wfs, inPair)

\* add_wordforms without its last line: LEMMAS[lemma] is not extended.
add_wordforms_all_only(dict, lemma, btype_pair, wfs) ==
    LET d1 == SetDefault(dict, btype_pair, NewPairRecord)
        r1 == Get(d1, btype_pair)
        l1 == SetDefault(r1.LEMMAS, lemma, <<>>)
        fw == filterd_wfs(btype_pair, wfs)
    IN  Put(d1, btype_pair, [ALL |-> r1.ALL \o fw, LEMMAS |-> l1])

\* add_wordforms assigning LEMMAS[lemma] in place of extending it.
add_wordforms_assigning(dict, lemma, btype_pair, wfs) ==
    LET d1 == SetDefault(dict, btype_pair, NewPairRecord)
        r1 == Get(d1, btype_pair)
        fw == filterd_wfs(btype_pair, wfs)
    IN  Put(d1, btype_pair,
            [ALL |-> r1.ALL \o fw, LEMMAS |-> Put(r1.LEMMAS, lemma, fw)])

add_wordforms(dict, lemma, btype_pair, wfs) ==
    LET d1 == SetDefault(dict, btype_pair, NewPairRecord)
        r1 == Get(d1, btype_pair)
        l1 == SetDefault(r1.LEMMAS, lemma, <<>>)
        fw == filterd_wfs(btype_pair, wfs)
    IN  Put(d1, btype_pair,
            [ALL |-> r1.ALL \o fw,
             LEMMAS |-> Put(l1, lemma, Get(l1, lemma) \o fw)])

\* ------------------------------------------------------------------- state

VARIABLES
    pc,               \* where the IndexedWordForms instance is in its life
    wfs,              \* IndexedWordForms.wfs
    lemma_idx,        \* IndexedWordForms.lemma_idx
    lemma_fname_idx,  \* IndexedWordForms.lemma_fname_idx
    fname_lemma_idx,  \* IndexedWordForms.fname_lemma_idx
    btypes_idx,       \* IndexedWordForms.btypes_idx (its data)
    filtered,         \* the filter has run on lemma_fname_idx
    data,             \* self.data of the BTypePairDictionary under construction
    todo,             \* the lemma/document entries its constructor has yet to visit
    pending,          \* the add_wordforms calls left for the entry being visited
    calls,            \* the add_wordforms calls made so far
    result,           \* what the last operation returned or raised
    compiled,         \* the compiled files on disk, in the order of SEMCOR_FILES
    mapping,          \* the mapping file: its lemma blocks
    files,            \* Semcor.files
    semcor_lemma_idx, \* Semcor.lemma_idx
    synset_idx,       \* Semcor.synset_idx
    content,          \* the lemma blocks _load_mappings has yet to read
    writes,           \* per WordForm id, how often its synset has been assigned
    paragraphs,       \* SemcorFile.paragraphs
    forms,            \* SemcorFile.forms
    sent              \* Sentence.wfs of the sentence a WordForm is in

\* The state of a Semcor instance and of what it loads.
semcorVars == <<compiled, mapping, files, semcor_lemma_idx, synset_idx, content, writes>>

\* The state of one SemcorFile and of one Sentence.
fileVars == <<paragraphs, forms, sent>>

vars == <<pc, wfs, lemma_idx, lemma_fname_idx, fname_lemma_idx, btypes_idx,
          filtered, data, todo, pending, calls, result, semcorVars, fileVars>>

NoResult == [op |-> "none"]

\* The lists of at most n WordForms of the first nfiles files: any lemma, a
\* synset of the given ones, file by file in the order of the files
\* (Semcor.get_common_nouns), each WordForm its own object.
WordLists(n, nfiles, synsets) ==
    LET shape == [lemma : Lemmas, f : 1..nfiles, synset : synsets]
        lists == UNION {[1..m -> shape] : m \in 0..n}
        inFileOrder(l) == \A i \in DOMAIN l : \A j \in DOMAIN l : i < j => l[i].f <= l[j].f
    IN  {[i \in DOMAIN l |-> [id |-> i, lemma |-> l[i].lemma,
                              fname |-> Fnames[l[i].f], synset |-> l[i].synset]] :
           l \in {x \in lists : inFileOrder(x)}}

\* No Semcor instance is under construction.
NoSemcor ==
    /\ compiled = <<>>
    /\ mapping = <<>>
    /\ files = <<>>
    /\ semcor_lemma_idx = EmptyDict
    /\ synset_idx = EmptyDict
    /\ content = <<>>
    /\ writes = <<>>

\* No SemcorFile and no Sentence is looked at.
NoFile ==
    /\ paragraphs = <<>>
    /\ forms = <<>>
    /\ sent = <<>>

\* A new IndexedWordForms instance, about to be constructed from wordforms.
Start(wordforms) ==
    /\ pc = "new"
    /\ wfs = wordforms
    /\ lemma_idx = EmptyDict
    /\ lemma_fname_idx = EmptyDict
    /\ fname_lemma_idx = EmptyDict
    /\ btypes_idx = EmptyDict
    /\ filtered = FALSE
    /\ data = EmptyDict
    /\ todo = <<>>
    /\ pending = <<>>
    /\ calls = <<>>
    /\ result = NoResult
    /\ NoSemcor
    /\ NoFile

Init == \E w \in WordLists(MaxWords, Len(Fnames), BTypes \cup {NoSynset}) : Start(w)

\* The constructor indexing the instance's whole list under every lemma, not
\* the lemma's own list.
Construct_from_whole_list ==
    /\ pc = "new"
    /\ lemma_idx' = create_lemma_index(wfs)
    /\ lemma_fname_idx' =
         [i \in DOMAIN lemma_idx' |->
            [k |-> lemma_idx'[i].k, v |-> create_fname_index(wfs)]]
    /\ fname_lemma_idx' = invert_index(lemma_fname_idx')
    /\ btypes_idx' = EmptyDict
    /\ pc' = "indexed"
    /\ result' = NoResult
    /\ UNCHANGED <<wfs, filtered, data, todo, pending, calls>>
    /\ UNCHANGED <<semcorVars, fileVars>>

\* IndexedWordForms.__init__
Construct ==
    /\ pc = "new"
    /\ lemma_idx' = create_lemma_index(wfs)
    /\ lemma_fname_idx' =
         [i \in DOMAIN lemma_idx' |->
            [k |-> lemma_idx'[i].k, v |-> create_fname_index(lemma_idx'[i].v)]]
    /\ fname_lemma_idx' = invert_index(lemma_fname_idx')
    /\ btypes_idx' = EmptyDict
    /\ pc' = "indexed"
    /\ result' = NoResult
    /\ UNCHANGED <<wfs, filtered, data, todo, pending, calls>>
    /\ UNCHANGED <<semcorVars, fileVars>>

\* The filter without its second line: fname_lemma_idx is not inverted anew.
Filter_without_inversion ==
    /\ pc = "indexed"
    /\ lemma_fname_idx' = filter_lemma_fname_index(lemma_fname_idx)
    /\ filtered' = TRUE
    /\ result' = NoResult
    /\ UNCHANGED <<pc, wfs, lemma_idx, fname_lemma_idx, btypes_idx, data, todo,
                   pending, calls>>
    /\ UNCHANGED <<semcorVars, fileVars>>

\* The filter removing the WordForms without a synset from the lists of
\* lemma_idx as well.
Filter_pruning_lemma_idx ==
    /\ pc = "indexed"
    /\ lemma_fname_idx' = filter_lemma_fname_index(lemma_fname_idx)
    /\ fname_lemma_idx' = invert_index(lemma_fname_idx')
    /\ lemma_idx' = [i \in DOMAIN lemma_idx |->
                       [k |-> lemma_idx[i].k, v |-> SelectSeq(lemma_idx[i].v, HasSynset)]]
    /\ filtered' = TRUE
    /\ result' = NoResult
    /\ UNCHANGED <<pc, wfs, btypes_idx, data, todo, pending, calls>>
    /\ UNCHANGED <<semcorVars, fileVars>>

\* IndexedWordForms.filter_lemmas_with_only_one_sense_per_document
Filter ==
    /\ pc = "indexed"
    /\ lemma_fname_idx' = filter_lemma_fname_index(lemma_fname_idx)
    /\ fname_lemma_idx' = invert_index(lemma_fname_idx')
    /\ filtered' = TRUE
    /\ result' = NoResult
    /\ UNCHANGED <<pc, wfs, lemma_idx, btypes_idx, data, todo, pending, calls>>
    /\ UNCHANGED <<semcorVars, fileVars>>

\* The key paths of a two-level index, in the order of the nested loops.
Entries(idx) ==
    LET ps == Paths(idx)
    IN  [i \in DOMAIN ps |-> [lemma |-> ps[i].k1, fname |-> ps[i].k2]]

\* wordforms_idx.lemma_fname_idx[lemma][fname]
EntryWfs(lemma, fname) == Get(Get(lemma_fname_idx, lemma), fname)

AttributeError == [op |-> "initialize_btypes_index", raised |-> "AttributeError"]

\* IndexedWordForms.initialize_btypes_index calls BTypePairDictionary(self):
\* the constructor starts with no data and has every entry yet to visit.
InitializeBtypesIndex ==
    /\ pc = "indexed"
    /\ data' = EmptyDict
    /\ todo' = Entries(lemma_fname_idx)
    /\ pending' = <<>>
    /\ calls' = <<>>
    /\ pc' = "building"
    /\ result' = NoResult
    /\ UNCHANGED <<wfs, lemma_idx, lemma_fname_idx, fname_lemma_idx, btypes_idx, filtered>>
    /\ UNCHANGED <<semcorVars, fileVars>>

\* One round of the constructor's loop over the entries, up to the pairs of
\* the entry: reading synset.btypes of a WordForm whose synset is None
\* raises AttributeError, which ends the construction and leaves
\* IndexedWordForms.btypes_idx as it was.
NextEntry ==
    /\ pc = "building"
    /\ pending = <<>>
    /\ todo # <<>>
    /\ LET e == Head(todo)
           ws == EntryWfs(e.lemma, e.fname)
       IN  IF \E i \in DOMAIN ws : ~HasSynset(ws[i])
           THEN /\ pc' = "error"
                /\ result' = AttributeError
                /\ data' = EmptyDict
                /\ todo' = <<>>
                /\ pending' = <<>>
           ELSE /\ pc' = pc
                /\ result' = NoResult
                /\ data' = data
                /\ todo' = Tail(todo)
                /\ pending' = LET ps == btype_pairs(ws)
                              IN  [i \in DOMAIN ps |->
                                     [lemma |-> e.lemma, fname |-> e.fname, pair |-> ps[i]]]
    /\ UNCHANGED <<wfs, lemma_idx, lemma_fname_idx, fname_lemma_idx, btypes_idx,
                   filtered, calls>>
    /\ UNCHANGED <<semcorVars, fileVars>>

\* One call self.add_wordforms(lemma, btype_pair, wfs) of the constructor.
AddWordforms ==
    /\ pc = "building"
    /\ pending # <<>>
    /\ LET c == Head(pending)
       IN  /\ data' = add_wordforms(data, c.lemma, c.pair, EntryWfs(c.lemma, c.fname))
           /\ calls' = Append(calls, c)
    /\ pending' = Tail(pending)
    /\ result' = NoResult
    /\ UNCHANGED <<pc, wfs, lemma_idx, lemma_fname_idx, fname_lemma_idx, btypes_idx,
                   filtered, todo>>
    /\ UNCHANGED <<semcorVars, fileVars>>

\* The constructor returns and initialize_btypes_index assigns btypes_idx.
FinishBtypesIndex ==
    /\ pc = "building"
    /\ pending = <<>>
    /\ todo = <<>>
    /\ btypes_idx' = data
    /\ pc' = "built"
    /\ result' = NoResult
    /\ UNCHANGED <<wfs, lemma_idx, lemma_fname_idx, fname_lemma_idx, filtered,
                   data, todo, pending, calls>>
    /\ UNCHANGED <<semcorVars, fileVars>>

Next ==
    \/ Construct
    \/ Filter
    \/ InitializeBtypesIndex
    \/ NextEntry
    \/ AddWordforms
    \/ FinishBtypesIndex

Spec == Init /\ [][Next]_vars

\* ----------------------------------------------------------------- queries

\* The thresholds asked of get_pairs: its defaults and the browser's.
MinLemmasAsked == {1, 2}
MinInstancesAsked == {1, 4}

\* The keys looked up: any two single basic types, in either order.
LookupKeys == {bt \in BTypes : ~HasSpace(bt)} \X {bt \in BTypes : ~HasSpace(bt)}

\* get_pairs with ">" in place of ">=" for the instances.
get_pairs_strict(min_lemmas, min_instances) ==
    LET keys == [i \in DOMAIN btypes_idx |-> btypes_idx[i].k]
        meets(pair) == /\ Len(Get(btypes_idx, pair).ALL) > min_instances
                       /\ Len(Get(btypes_idx, pair).LEMMAS) >= min_lemmas
    IN  SelectSeq(keys, meets)

get_pairs(min_lemmas, min_instances) ==
    LET keys == [i \in DOMAIN btypes_idx |-> btypes_idx[i].k]
        meets(pair) == /\ Len(Get(btypes_idx, pair).ALL) >= min_instances
                       /\ Len(Get(btypes_idx, pair).LEMMAS) >= min_lemmas
    IN  SelectSeq(keys, meets)

\* IndexedWordForms.get_pairs, also before initialize_btypes_index has run
GetPairs ==
    /\ pc \in {"indexed", "built"}
    /\ \E ml \in MinLemmasAsked, mi \in MinInstancesAsked :
         result' = [op |-> "get_pairs", min_lemmas |-> ml, min_instances |-> mi,
                    ret |-> get_pairs(ml, mi)]
    /\ UNCHANGED <<pc, wfs, lemma_idx, lemma_fname_idx, fname_lemma_idx, btypes_idx,
                   filtered, data, todo, pending, calls>>
    /\ UNCHANGED <<semcorVars, fileVars>>

\* self.data[key]: a dict raises KeyError for a key it does not have
getitem(key) ==
    IF Has(btypes_idx, key)
    THEN [op |-> "getitem", key |-> key, raised |-> "none", ret |-> Get(btypes_idx, key)]
    ELSE [op |-> "getitem", key |-> key, raised |-> "KeyError", ret |-> NewPairRecord]

\* BTypePairDictionary.__getitem__: btypes_idx[pair]
GetItem ==
    /\ pc = "built"
    /\ \E key \in LookupKeys : result' = getitem(key)
    /\ UNCHANGED <<pc, wfs, lemma_idx, lemma_fname_idx, fname_lemma_idx, btypes_idx,
                   filtered, data, todo, pending, calls>>
    /\ UNCHANGED <<semcorVars, fileVars>>

NextQuery ==
    \/ Next
    \/ GetPairs
    \/ GetItem

\* The WordForms of one loaded file, each with a synset of one basic type.
InitQuery ==
    \E w \in WordLists(MaxTypedWords, 1, {bt \in BTypes : ~HasSpace(bt)}) : Start(w)

SpecQuery == InitQuery /\ [][NextQuery]_vars

\* The WordForms of all loaded files, each with a synset of one basic type.
InitTyped ==
    \E w \in WordLists(MaxTypedWords, Len(Fnames), {bt \in BTypes : ~HasSpace(bt)}) : Start(w)

SpecTyped == InitTyped /\ [][Next]_vars

\* --------------------------------------------------------------- semcor.py

\* The most WordForms with a sense in the compiled file a Semcor instance
\* loads.
MaxForms == 2

\* The lines of one sense in the mapping file: range(0, len(lines), 6).
RecordLen == 6

\* The lemmas of the mapping file, in the order of their blocks.
LemmaOrder == <<"bank", "walk">>

\* The lexical senses (lexsn) of the corpus and of the mapping file.
SenseKeys == {"1:04:00::", "1:06:00::"}

\* lemma + '%' + sense
SenseId(lemma, sense) == <<lemma, "%", sense>>

\* What the mapping file says of a sense: its synset identifier and its
\* basic types.
SsidOf(lemma, sense) ==
    CASE lemma = "bank" /\ sense = "1:04:00::" -> "00169305"
      [] lemma = "bank" /\ sense = "1:06:00::" -> "02787772"
      [] lemma = "walk" /\ sense = "1:04:00::" -> "00284798"
      [] lemma = "walk" /\ sense = "1:06:00::" -> "00285889"

BTypeOf(lemma, sense) ==
    CASE lemma = "bank" /\ sense = "1:04:00::" -> "act"
      [] lemma = "bank" /\ sense = "1:06:00::" -> "art"
      [] lemma = "walk" /\ sense = "1:04:00::" -> "act"
      [] lemma = "walk" /\ sense = "1:06:00::" -> "act evt"

\* A line of the file: its text and whether blanks surround the text.
Line(padded, text) == [padded |-> padded, text |-> text]

\* line.strip()
Strip(line) == line.text

\* The six lines of one sense, as the file has them.
RecordLines(lemma, sense, padded) ==
    << Line(padded, SenseId(lemma, sense)),
       Line(padded, SsidOf(lemma, sense)),
       Line(padded, "noun"),
       Line(padded, BTypeOf(lemma, sense)),
       Line(padded, "description"),
       Line(padded, "gloss") >>

\* The orders in which a block may list senses, each sense at most once.
SenseLists ==
    {s \in UNION {[1..n -> SenseKeys] : n \in 0..Cardinality(SenseKeys)} :
        \A i \in DOMAIN s : \A j \in DOMAIN s : s[i] = s[j] => i = j}

\* The lines of a block after its lemma line: the records of its senses,
\* less the last `lost` lines.
BlockLines(lemma, senses, padded, lost) ==
    LET all == Concat([i \in DOMAIN senses |-> RecordLines(lemma, senses[i], padded)])
    IN  SubSeq(all, 1, Len(all) - lost)

\* The mapping files: a block for some of the lemmas, the record lines of a
\* file all padded or none, and at most one block that has lost up to five
\* of its last lines.  A file is what read().split(2 * linesep) and then
\* split(linesep) make of it: blocks of a lemma line and further lines.
MappingFiles ==
    LET lemmaLists == {<<LemmaOrder[1]>>, <<LemmaOrder[2]>>, LemmaOrder}
    IN  { [i \in DOMAIN ls |->
             [lemma |-> ls[i],
              lines |-> BlockLines(ls[i], ss[i], padded, IF i = d THEN lost ELSE 0)]] :
          ls \in lemmaLists, ss \in [1..Len(LemmaOrder) -> SenseLists],
          padded \in BOOLEAN, d \in 0..Len(LemmaOrder), lost \in 1..(RecordLen - 1) }

\* The lists of at most n WordForms with a sense of one compiled file, every
\* one a common noun, none with a synset yet (objects.py: self.synset = None).
FormLists(n, fname) ==
    LET shape == [lemma : Lemmas, lexsn : SenseKeys]
    IN  {[i \in DOMAIN l |-> [id |-> i, lemma |-> l[i].lemma, fname |-> fname,
                              lexsn |-> l[i].lexsn, synset |-> NoSynset]] :
           l \in UNION {[1..m -> shape] : m \in 0..n}}

\* The forms of the files, file by file.
AllForms(fs) == Concat([i \in DOMAIN fs |-> fs[i].forms])

\* Semcor._index: lemma_idx of the forms of all files
index(fs) == LemmaIndexLoop(EmptyDict, AllForms(fs))

\* lines[i:i+6] for i in range(0, len(lines), 6)
Slices(lines) ==
    LET count == (Len(lines) + RecordLen - 1) \div RecordLen
        upto(n) == IF n < Len(lines) THEN n ELSE Len(lines)
    IN  [s \in 1..count |-> SubSeq(lines, (s - 1) * RecordLen + 1, upto(s * RecordLen))]

\* Synset(lines) with the category where the basic types are.
Synset_category_as_btypes(lines) ==
    [ssid |-> Strip(lines[2]), cat |-> Strip(lines[3]), btypes |-> Strip(lines[3]),
     description |-> Strip(lines[5]), gloss |-> Strip(lines[6])]

\* utils.Synset.__init__, for six lines: lines[1] .. lines[5], from 0
Synset(lines) ==
    [ssid |-> Strip(lines[2]), cat |-> Strip(lines[3]), btypes |-> Strip(lines[4]),
     description |-> Strip(lines[5]), gloss |-> Strip(lines[6])]

\* Synset(lines) raises IndexError when one of lines[1] .. lines[5] is not
\* there.
RaisesIndexError(lines) == \E i \in 1..5 : i >= Len(lines)

\* The inner loop of _load_mappings that leaves an incomplete record out.
RECURSIVE LoadSenses_dropping_incomplete(_, _)
LoadSenses_dropping_incomplete(table, slices) ==
    IF slices = <<>> THEN [raised |-> "none", table |-> table]
    ELSE LET lines == Head(slices)
         IN  IF RaisesIndexError(lines)
             THEN LoadSenses_dropping_incomplete(table, Tail(slices))
             ELSE LoadSenses_dropping_incomplete(Put(table, Strip(lines[1]), Synset(lines)),
                                                 Tail(slices))

\* The inner loop of _load_mappings over the slices of one block: the senses
\* stored in self.synset_idx[lemma] when it ends, and how it ends.
RECURSIVE LoadSenses(_, _)
LoadSenses(table, slices) ==
    IF slices = <<>> THEN [raised |-> "none", table |-> table]
    ELSE LET lines == Head(slices)
         IN  IF RaisesIndexError(lines)
             THEN [raised |-> "IndexError", table |-> table]
             ELSE LoadSenses(Put(table, Strip(lines[1]), Synset(lines)), Tail(slices))

\* None, and a value that is not None: what dict.get returns.
None == <<>>
Some(x) == <<x>>

\* Semcor.get_synset_for_lemma
get_synset_for_lemma(lemma, sense) ==
    LET senses == IF Has(synset_idx, lemma) THEN Get(synset_idx, lemma) ELSE EmptyDict
    IN  IF Has(senses, SenseId(lemma, sense))
        THEN Some(Get(senses, SenseId(lemma, sense)))
        ELSE None

\* What a WordForm record holds for wf.synset.
SynsetField(ss) == IF ss = None THEN NoSynset ELSE ss[1].btypes

\* The assignments of _add_synsets_to_wordforms over an index, in the order
\* it makes them.
Assignments(idx) ==
    Concat([i \in DOMAIN idx |->
              [j \in DOMAIN idx[i].v |->
                 [id |-> idx[i].v[j].id,
                  synset |-> SynsetField(get_synset_for_lemma(idx[i].k, idx[i].v[j].lexsn))]]])

\* A WordForm after the assignments made to it: its last one counts.
Assigned(wf, as) ==
    LET mine == {i \in DOMAIN as : as[i].id = wf.id}
    IN  IF mine = {} THEN wf
        ELSE [wf EXCEPT !.synset = as[CHOOSE i \in mine : \A j \in mine : j <= i].synset]

\* Semcor.get_common_nouns, every form being a common noun
get_common_nouns(fs) == AllForms(fs)

\* A Semcor instance whose attributes are initialized, for the compiled file
\* and the mapping file given.
StartSemcor(file, map) ==
    /\ pc = "semcor"
    /\ compiled = <<file>>
    /\ mapping = map
    /\ files = <<>>
    /\ semcor_lemma_idx = EmptyDict
    /\ synset_idx = EmptyDict
    /\ content = <<>>
    /\ writes = [i \in DOMAIN file.forms |-> 0]
    /\ wfs = <<>>
    /\ lemma_idx = EmptyDict
    /\ lemma_fname_idx = EmptyDict
    /\ fname_lemma_idx = EmptyDict
    /\ btypes_idx = EmptyDict
    /\ filtered = FALSE
    /\ data = EmptyDict
    /\ todo = <<>>
    /\ pending = <<>>
    /\ calls = <<>>
    /\ result = NoResult
    /\ NoFile

InitSemcor ==
    \E fs \in FormLists(MaxForms, Fnames[1]) : \E map \in MappingFiles :
        StartSemcor([fname |-> Fnames[1], forms |-> fs], map)

\* The variables of the IndexedWordForms instance.
indexVars == <<wfs, lemma_idx, lemma_fname_idx, fname_lemma_idx, btypes_idx,
               filtered, data, todo, pending, calls>>

\* Semcor._load, up to self._index(): the compiled files are unpickled.
LoadFiles ==
    /\ pc = "semcor"
    /\ files' = compiled
    /\ pc' = "files"
    /\ UNCHANGED <<compiled, mapping, semcor_lemma_idx, synset_idx, content, writes,
                   result, indexVars, fileVars>>

\* Semcor._index
Index ==
    /\ pc = "files"
    /\ semcor_lemma_idx' = index(files)
    /\ pc' = "corpus_indexed"
    /\ UNCHANGED <<compiled, mapping, files, synset_idx, content, writes,
                   result, indexVars, fileVars>>

\* Semcor._load_mappings, up to its loop: the file is read and split.
ReadMappings ==
    /\ pc = "corpus_indexed"
    /\ synset_idx' = EmptyDict
    /\ content' = mapping
    /\ pc' = "mappings"
    /\ UNCHANGED <<compiled, mapping, files, semcor_lemma_idx, writes,
                   result, indexVars, fileVars>>

\* One round of the loop of _load_mappings over the lemma blocks.  An
\* IndexError of Synset() is not caught by _load_mappings, _load or
\* __init__: Semcor(...) raises it and its caller gets no instance.
LoadBlock ==
    /\ pc = "mappings"
    /\ content # <<>>
    /\ LET block == Head(content)
           loaded == LoadSenses(EmptyDict, Slices(block.lines))
       IN  /\ synset_idx' = Put(synset_idx, block.lemma, loaded.table)
           /\ IF loaded.raised = "none"
              THEN /\ content' = Tail(content)
                   /\ pc' = pc
                   /\ result' = result
              ELSE /\ content' = content
                   /\ pc' = "raised"
                   /\ result' = [op |-> "Semcor", raised |-> loaded.raised]
    /\ UNCHANGED <<compiled, mapping, files, semcor_lemma_idx, writes,
                   indexVars, fileVars>>

\* _add_synsets_to_wordforms assigning over the forms of the files as well
\* as over the lemma index.
AddSynsets_twice ==
    /\ pc = "mappings"
    /\ content = <<>>
    /\ LET as == Assignments(semcor_lemma_idx) \o Assignments(semcor_lemma_idx)
       IN  /\ files' = [i \in DOMAIN files |->
                          [files[i] EXCEPT !.forms =
                             [j \in DOMAIN files[i].forms |-> Assigned(files[i].forms[j], as)]]]
           /\ semcor_lemma_idx' =
                 [i \in DOMAIN semcor_lemma_idx |->
                    [k |-> semcor_lemma_idx[i].k,
                     v |-> [j \in DOMAIN semcor_lemma_idx[i].v |->
                              Assigned(semcor_lemma_idx[i].v[j], as)]]]
           /\ writes' = [id \in DOMAIN writes |->
                           writes[id] + Cardinality({i \in DOMAIN as : as[i].id = id})]
    /\ pc' = "resolved"
    /\ UNCHANGED <<compiled, mapping, synset_idx, content, result, indexVars, fileVars>>

\* Semcor._add_synsets_to_wordforms, with which _load_mappings and _load
\* end: the WordForms that files and lemma_idx hold are the same objects.
AddSynsets ==
    /\ pc = "mappings"
    /\ content = <<>>
    /\ LET as == Assignments(semcor_lemma_idx)
       IN  /\ files' = [i \in DOMAIN files |->
                          [files[i] EXCEPT !.forms =
                             [j \in DOMAIN files[i].forms |-> Assigned(files[i].forms[j], as)]]]
           /\ semcor_lemma_idx' =
                 [i \in DOMAIN semcor_lemma_idx |->
                    [k |-> semcor_lemma_idx[i].k,
                     v |-> [j \in DOMAIN semcor_lemma_idx[i].v |->
                              Assigned(semcor_lemma_idx[i].v[j], as)]]]
           /\ writes' = [id \in DOMAIN writes |->
                           writes[id] + Cardinality({i \in DOMAIN as : as[i].id = id})]
    /\ pc' = "resolved"
    /\ UNCHANGED <<compiled, mapping, synset_idx, content, result, indexVars, fileVars>>

\* _load_common_nouns_indexed_on_basic_types, up to IndexedWordForms(self, wfs)
CommonNouns ==
    /\ pc = "resolved"
    /\ wfs' = get_common_nouns(files)
    /\ pc' = "new"
    /\ UNCHANGED <<lemma_idx, lemma_fname_idx, fname_lemma_idx, btypes_idx, filtered,
                   data, todo, pending, calls, result, semcorVars, fileVars>>

\* self.noun_idx.filter_lemmas_with_only_one_sense_per_document(), called
\* once, right after the constructor
FilterNouns == ~filtered /\ Filter

\* self.noun_idx.initialize_btypes_index(), called after the filter
InitializeNouns == filtered /\ InitializeBtypesIndex

\* Semcor.get_synset_for_lemma, asked of an instance that is constructed
GetSynsetForLemma ==
    /\ pc = "built"
    /\ \E lemma \in Lemmas, sense \in SenseKeys :
         result' = [op |-> "get_synset_for_lemma", lemma |-> lemma, sense |-> sense,
                    ret |-> get_synset_for_lemma(lemma, sense)]
    /\ UNCHANGED <<pc, indexVars, semcorVars, fileVars>>

NextSemcor ==
    \/ LoadFiles
    \/ Index
    \/ ReadMappings
    \/ LoadBlock
    \/ AddSynsets
    \/ CommonNouns
    \/ Construct
    \/ FilterNouns
    \/ InitializeNouns
    \/ NextEntry
    \/ AddWordforms
    \/ FinishBtypesIndex
    \/ GetSynsetForLemma

SpecSemcor == InitSemcor /\ [][NextSemcor]_vars

\* ------------------------------------------- SemcorFile, Sentence, WordForm

\* The most tokens of a document.
MaxTokens == 3

\* The most tokens of a sentence whose contexts are asked for, and the
\* widest context asked for.
MaxSentence == 3
MaxWindow == 4

\* An attribute the tag does not have: tag.get(...) is None.
NoAttr == "None"

\* The paragraphs and, in each, the sentences of a document, by pnum and snum.
Pids == <<"1", "2">>
Sids == <<<<"1", "2">>, <<"3", "4">>>>

\* What a token may be: a Punctuation, or a WordForm that has wnsn or not
\* and lexsn or not.
TokenShapes ==
    {[kind |-> "punc", wnsn |-> NoAttr, lexsn |-> NoAttr]} \cup
    [kind : {"wf"}, wnsn : {"1", NoAttr}, lexsn : {"1:04:00::", NoAttr}]

\* The documents of at most n tokens in two paragraphs of two sentences: the
\* tokens are given in document order, each with the sentence it is in, and
\* have their position in the sentence (parser.parse_sentence).
Documents(n) ==
    LET slots == {<<p, s>> : p \in DOMAIN Pids, s \in 1..2}
        before(a, b) == a[1] < b[1] \/ (a[1] = b[1] /\ a[2] <= b[2])
        shape == [slot : slots, token : TokenShapes]
        lists == {l \in UNION {[1..m -> shape] : m \in 0..n} :
                     \A i \in DOMAIN l : \A j \in DOMAIN l :
                         i < j => before(l[i].slot, l[j].slot)}
        first(l, slot) == CHOOSE i \in DOMAIN l :
                              l[i].slot = slot /\ \A j \in DOMAIN l : l[j].slot = slot => i <= j
        token(l, i) == [id |-> i, kind |-> l[i].token.kind, wnsn |-> l[i].token.wnsn,
                        lexsn |-> l[i].token.lexsn, position |-> i - first(l, l[i].slot)]
        inSlot(l, slot) == {i \in DOMAIN l : l[i].slot = slot}
        sentence(l, slot) ==
            [sid |-> Sids[slot[1]][slot[2]],
             wfs |-> IF inSlot(l, slot) = {} THEN <<>>
                     ELSE [k \in 1..Cardinality(inSlot(l, slot)) |->
                             token(l, first(l, slot) + k - 1)]]
    IN  {[p \in DOMAIN Pids |->
            [pid |-> Pids[p], sentences |-> [s \in 1..2 |-> sentence(l, <<p, s>>)]]] :
         l \in lists}

\* SemcorObject.is_word_form, WordForm.is_word_form
is_word_form(wf) == wf.kind = "wf"

\* WordForm.has_sense, Punctuation.has_sense
has_sense(wf) == wf.kind = "wf" /\ (wf.wnsn # NoAttr /\ wf.lexsn # NoAttr)

\* The loop body of Sentence.collect_forms.
Collected(wf) == is_word_form(wf) /\ has_sense(wf)

\* Sentence.collect_forms(forms)
SentenceCollect(sentence, into) == into \o SelectSeq(sentence.wfs, Collected)

\* Paragraph.collect_forms(forms): the loop over the sentences
RECURSIVE ParagraphCollect(_, _)
ParagraphCollect(sentences, into) ==
    IF sentences = <<>> THEN into
    ELSE ParagraphCollect(Tail(sentences), SentenceCollect(Head(sentences), into))

\* The loop of SemcorFile.collect_forms over the paragraphs.
RECURSIVE FileCollect(_, _)
FileCollect(paras, into) ==
    IF paras = <<>> THEN into
    ELSE FileCollect(Tail(paras), ParagraphCollect(Head(paras).sentences, into))

\* The variables of no SemcorFile and no Sentence: no IndexedWordForms
\* instance either.
NoIndex ==
    /\ wfs = <<>>
    /\ lemma_idx = EmptyDict
    /\ lemma_fname_idx = EmptyDict
    /\ fname_lemma_idx = EmptyDict
    /\ btypes_idx = EmptyDict
    /\ filtered = FALSE
    /\ data = EmptyDict
    /\ todo = <<>>
    /\ pending = <<>>
    /\ calls = <<>>

\* A SemcorFile as parsed: its paragraphs are there, its forms are not yet
\* collected (SemcorFile.__init__: self.forms = []).
InitFile ==
    /\ pc = "file"
    /\ paragraphs \in Documents(MaxTokens)
    /\ forms = <<>>
    /\ sent = <<>>
    /\ result = NoResult
    /\ NoIndex
    /\ NoSemcor

\* collect_forms without self.forms = []: it appends to the forms it has.
CollectForms_appending ==
    /\ pc = "file"
    /\ forms' = FileCollect(paragraphs, forms)
    /\ result' = [op |-> "collect_forms", again |-> result.op = "collect_forms"]
    /\ UNCHANGED <<pc, paragraphs, sent, indexVars, semcorVars>>

\* SemcorFile.collect_forms; the result says whether it was called before.
CollectForms ==
    /\ pc = "file"
    /\ forms' = FileCollect(paragraphs, <<>>)
    /\ result' = [op |-> "collect_forms", again |-> result.op = "collect_forms"]
    /\ UNCHANGED <<pc, paragraphs, sent, indexVars, semcorVars>>

NextFile == CollectForms

SpecFile == InitFile /\ [][NextFile]_vars

\* The surface texts of WordForms and of Punctuation.
WordTexts == {"The", "by"}
PunctuationTexts == {","}

\* A text as the sequence of its characters.
TextChars(text) ==
    CASE text = "The" -> <<"T", "h", "e">>
      [] text = "by"  -> <<"b", "y">>
      [] text = ","   -> <<",">>

\* The sentences of at most n tokens, each at its position.
Sentences(n) ==
    LET shape == [kind : {"wf"}, text : WordTexts] \cup [kind : {"punc"}, text : PunctuationTexts]
    IN  {[i \in DOMAIN l |-> [kind |-> l[i].kind, text |-> l[i].text, position |-> i - 1]] :
           l \in UNION {[1..m -> shape] : m \in 1..n}}

\* ' '.join(texts), in characters
RECURSIVE Join(_)
Join(texts) ==
    IF texts = <<>> THEN <<>>
    ELSE IF Len(texts) = 1 THEN TextChars(texts[1])
    ELSE TextChars(texts[1]) \o <<" ">> \o Join(Tail(texts))

\* Where a slice bound i falls in a string of n characters: a negative
\* bound counts from the end, and bounds beyond the string are clipped.
SliceBound(i, n) ==
    IF i < 0 THEN (IF n + i < 0 THEN 0 ELSE n + i)
    ELSE (IF i > n THEN n ELSE i)

\* s[i:] and s[:i]
SliceFrom(s, i) == SubSeq(s, SliceBound(i, Len(s)) + 1, Len(s))
SliceTo(s, i) == SubSeq(s, 1, SliceBound(i, Len(s)))

\* WordForm.kwic(context), for the WordForm at wf.position of sent
kwic(wf, context) ==
    LET kw == TextChars(sent[wf.position + 1].text)
        left == SubSeq(sent, 1, wf.position)
        right == SubSeq(sent, wf.position + 2, Len(sent))
        leftText == Join([i \in DOMAIN left |-> left[i].text])
        rightText == Join([i \in DOMAIN right |-> right[i].text])
    IN  [left |-> SliceFrom(leftText, 0 - context), kw |-> kw,
         right |-> SliceTo(rightText, context)]

\* A sentence as parsed.
InitKwic ==
    /\ pc = "sentence"
    /\ sent \in Sentences(MaxSentence)
    /\ paragraphs = <<>>
    /\ forms = <<>>
    /\ result = NoResult
    /\ NoIndex
    /\ NoSemcor

\* wf.kwic(context) for a WordForm of the sentence
Kwic ==
    /\ pc = "sentence"
    /\ \E i \in DOMAIN sent : \E context \in 0..MaxWindow :
         /\ is_word_form(sent[i])
         /\ result' = [op |-> "kwic", position |-> sent[i].position, context |-> context,
                       ret |-> kwic(sent[i], context)]
    /\ UNCHANGED <<pc, fileVars, indexVars, semcorVars>>

NextKwic == Kwic

SpecKwic == InitKwic /\ [][NextKwic]_vars

\* ------------------------------------------------ the browser's displays

\* Tuples of two basic types in the order of sorted(self.data).
PairLess(p, q) == StrLess(p[1], q[1]) \/ (p[1] = q[1] /\ StrLess(p[2], q[2]))

\* sorted(self.data): the keys of the pair index, smallest first
RECURSIVE SortedPairs(_)
SortedPairs(S) ==
    IF S = {} THEN <<>>
    ELSE LET m == CHOOSE x \in S : \A y \in S : x = y \/ PairLess(x, y)
         IN  <<m>> \o SortedPairs(S \ {m})

\* wfs.sort(key=lambda x: x.synset.btypes): a stable sort, WordForms of one
\* basic type keep their order
sort_by_btypes(wordforms) ==
    LET labels == Sorted(BtypesOf(wordforms))
    IN  Concat([i \in DOMAIN labels |->
                  LET typed(wf) == wf.synset = labels[i]
                  IN  SelectSeq(wordforms, typed)])

\* The record of a pair after the lists of its lemmas are sorted in place.
LemmasSorted(rec) ==
    [rec EXCEPT !.LEMMAS = [j \in DOMAIN rec.LEMMAS |->
                              [k |-> rec.LEMMAS[j].k, v |-> sort_by_btypes(rec.LEMMAS[j].v)]]]

\* The pair index after the displays of the pairs given.
Displayed(idx, shown) ==
    [i \in DOMAIN idx |->
       IF idx[i].k \in shown THEN [k |-> idx[i].k, v |-> LemmasSorted(idx[i].v)] ELSE idx[i]]

\* Browser.show_basic_type_pair: "No results" for a pair without data;
\* btypes_idx.data is the dictionary the constructor filled.
ShowBasicTypePair ==
    /\ pc = "built"
    /\ \E pair \in LookupKeys :
         /\ btypes_idx' = IF Has(btypes_idx, pair) THEN Displayed(btypes_idx, {pair})
                          ELSE btypes_idx
         /\ result' = [op |-> "show_basic_type_pair", pair |-> pair,
                       found |-> Has(btypes_idx, pair)]
    /\ data' = btypes_idx'
    /\ UNCHANGED <<pc, wfs, lemma_idx, lemma_fname_idx, fname_lemma_idx, filtered,
                   todo, pending, calls>>
    /\ UNCHANGED <<semcorVars, fileVars>>

\* The n asked of print_index: None for all pairs, or a number of pairs.
PrintLimits == {None, Some(1)}

\* BTypePairDictionary.print_index(n), IndexedWordForms.print_btypes_index
PrintIndex ==
    /\ pc = "built"
    /\ \E n \in PrintLimits :
         LET keys == SortedPairs(Keys(btypes_idx))
             count == IF n = None \/ n[1] > Len(keys) THEN Len(keys) ELSE n[1]
             shown == {keys[i] : i \in 1..count}
         IN  /\ btypes_idx' = Displayed(btypes_idx, shown)
             /\ result' = [op |-> "print_index", n |-> n, pairs |-> SubSeq(keys, 1, count)]
    /\ data' = btypes_idx'
    /\ UNCHANGED <<pc, wfs, lemma_idx, lemma_fname_idx, fname_lemma_idx, filtered,
                   todo, pending, calls>>
    /\ UNCHANGED <<semcorVars, fileVars>>

\* BTypePairDictionary.print_summary, IndexedWordForms.print_btypes_index_summary
PrintSummary ==
    /\ pc = "built"
    /\ result' = [op |-> "print_summary",
                  lines |-> LET keys == SortedPairs(Keys(btypes_idx))
                            IN  [i \in DOMAIN keys |->
                                   [pair |-> keys[i],
                                    lemmas |-> Len(Get(btypes_idx, keys[i]).LEMMAS),
                                    instances |-> Len(Get(btypes_idx, keys[i]).ALL)]]]
    /\ UNCHANGED <<pc, indexVars, semcorVars, fileVars>>

NextBrowse ==
    \/ Next
    \/ GetPairs
    \/ GetItem
    \/ ShowBasicTypePair
    \/ PrintIndex
    \/ PrintSummary

\* The WordForms of one loaded file, each with a synset of one basic type,
\* for the browser to display.
InitBrowse ==
    \E w \in WordLists(MaxWords, 1, {bt \in BTypes : ~HasSpace(bt)}) : Start(w)

SpecBrowse == InitBrowse /\ [][NextBrowse]_vars

\* ------------------------------------------------- the lookup of sentences

\* Strings the browser takes apart are sequences of characters here: the
\* names of the files, the sentence identifiers and what the user types.
Digits == {"0", "1", "2", "3", "4", "5", "6", "7", "8", "9"}

\* The name of the file that is loaded and the name of one that is not.
LoadedName == <<"b", "r", "-", "a", "0", "1">>
OtherName == <<"b", "r", "-", "a", "0", "2">>

\* The values of snum in the file, and a sentence identifier no sentence has.
SentIds == {<<"1">>, <<"2">>, <<"1", "2">>}
NoSentId == <<"9">>

\* The documents of two paragraphs of two sentences each whose snum is any
\* of SentIds, the same one twice included; each sentence holds one token
\* and refers to its paragraph (parser.parse_paragraph, parse_sentence).
LookupDocuments ==
    LET slot(p, s) == 2 * (p - 1) + s
    IN  {[p \in DOMAIN Pids |->
            [pid |-> Pids[p],
             sentences |-> [s \in 1..2 |->
                 [sid |-> ids[slot(p, s)], para |-> Pids[p],
                  wfs |-> <<[id |-> slot(p, s), kind |-> "punc", wnsn |-> NoAttr,
                             lexsn |-> NoAttr, position |-> 0]>>]]]] :
         ids \in [1..4 -> SentIds]}

\* The inner loop of SemcorFile.get_sentence: the first sentence of the
\* paragraph with that sid, if there is one.
RECURSIVE SentenceIn(_, _)
SentenceIn(sentences, sent_id) ==
    IF sentences = <<>> THEN None
    ELSE IF Head(sentences).sid = sent_id THEN Some(Head(sentences))
    ELSE SentenceIn(Tail(sentences), sent_id)

\* SemcorFile.get_sentence
RECURSIVE get_sentence(_, _)
get_sentence(paras, sent_id) ==
    IF paras = <<>> THEN None
    ELSE IF SentenceIn(Head(paras).sentences, sent_id) # None
         THEN SentenceIn(Head(paras).sentences, sent_id)
    ELSE get_sentence(Tail(paras), sent_id)

\* Semcor.file_idx with the one file loaded, and Semcor.get_file
file_idx == <<[k |-> LoadedName, v |-> paragraphs]>>
get_file(fname) == IF Has(file_idx, fname) THEN Some(Get(file_idx, fname)) ELSE None

\* re.match(r"(.*)-(\d+)$", sentence): the groups, or None. No digit is a
\* hyphen, so the hyphen of a match is the last one of the input.
Match(input) ==
    LET hyphens == {i \in DOMAIN input : input[i] = "-"}
        last == CHOOSE i \in hyphens : \A j \in hyphens : j <= i
        number == SubSeq(input, last + 1, Len(input))
    IN  IF hyphens = {} THEN None
        ELSE IF number # <<>> /\ \A j \in DOMAIN number : number[j] \in Digits
        THEN Some([fname |-> SubSeq(input, 1, last - 1), sent |-> number])
        ELSE None

\* What the user asks show_paragraph for: a sentence of a file, or a file name.
Requests ==
    {name \o <<"-">> \o sid : name \in {LoadedName, OtherName}, sid \in SentIds \cup {NoSentId}}
        \cup {LoadedName, OtherName}

\* What Browser.show_paragraph prints and whether it returns: sentence.para
\* of a sentence that is None raises AttributeError.
show_paragraph(input) ==
    LET groups == Match(input)
        fname == groups[1].fname
        sent_id == groups[1].sent
        semcor_file == get_file(fname)
        sentence == get_sentence(semcor_file[1], sent_id)
    IN  IF groups = None
        THEN [printed |-> <<"Could not get file name and sentence number from input">>,
              para |-> None, raised |-> "none"]
        ELSE IF semcor_file = None
        THEN [printed |-> <<"Could not find file">>, para |-> None, raised |-> "none"]
        ELSE IF sentence = None
        THEN [printed |-> <<"Could not find sentence">>, para |-> None,
              raised |-> "AttributeError"]
        ELSE [printed |-> <<>>, para |-> Some(sentence[1].para), raised |-> "none"]

\* A Semcor instance with one file as parsed, and its browser.
InitLookup ==
    /\ pc = "lookup"
    /\ paragraphs \in LookupDocuments
    /\ forms = <<>>
    /\ sent = <<>>
    /\ result = NoResult
    /\ NoIndex
    /\ NoSemcor

\* semcor_file.get_sentence(sent_id)
GetSentence ==
    /\ pc = "lookup"
    /\ \E sent_id \in SentIds \cup {NoSentId} :
         result' = [op |-> "get_sentence", sent_id |-> sent_id,
                    ret |-> get_sentence(paragraphs, sent_id)]
    /\ UNCHANGED <<pc, fileVars, indexVars, semcorVars>>

\* Browser.show_paragraph(sentence), the command "p <file>-<sentence>"
ShowParagraph ==
    /\ pc = "lookup"
    /\ \E input \in Requests :
         result' = [op |-> "show_paragraph", input |-> input,
                    out |-> show_paragraph(input)]
    /\ UNCHANGED <<pc, fileVars, indexVars, semcorVars>>

NextLookup == GetSentence \/ ShowParagraph

SpecLookup == InitLookup /\ [][NextLookup]_vars

\* ------------------------------------------- the noun index and its callers

\* An IndexedWordForms instance is either made and driven by its caller, in
\* any order of the two public methods, or made by a Semcor instance under
\* construction, which calls them one after the other.
InitNouns == Init \/ InitSemcor

\* The steps of Next for the first caller, those of NextSemcor for the second.
NextNouns ==
    \/ NoSemcor /\ Construct
    \/ NoSemcor /\ Filter
    \/ NoSemcor /\ InitializeBtypesIndex
    \/ NoSemcor /\ NextEntry
    \/ NoSemcor /\ AddWordforms
    \/ NoSemcor /\ FinishBtypesIndex
    \/ ~NoSemcor /\ LoadFiles
    \/ ~NoSemcor /\ Index
    \/ ~NoSemcor /\ ReadMappings
    \/ ~NoSemcor /\ LoadBlock
    \/ ~NoSemcor /\ AddSynsets
    \/ ~NoSemcor /\ CommonNouns
    \/ ~NoSemcor /\ Construct
    \/ ~NoSemcor /\ FilterNouns
    \/ ~NoSemcor /\ InitializeNouns
    \/ ~NoSemcor /\ NextEntry
    \/ ~NoSemcor /\ AddWordforms
    \/ ~NoSemcor /\ FinishBtypesIndex
    \/ ~NoSemcor /\ GetSynsetForLemma

SpecNouns == InitNouns /\ [][NextNouns]_vars

\* ------------------------------------------------------------------ claims

\* The pair dictionaries of a state: the one under construction and the one
\* IndexedWordForms holds.
PairDicts == {data, btypes_idx}

\* Every list of WordForms of a pair's record: ALL and each LEMMAS list.
ListsOf(rec) == {rec.ALL} \cup Range(Values(rec.LEMMAS))

PlainBTypes == {bt \in BTypes : ~HasSpace(bt)}

\* C1: every key of a pair dictionary is a 2-tuple (a, b) of basic types
\* with a < b in string order; (b, a) is never a key as well and a # b.
C1_KeysOrdered ==
    \A d \in PairDicts : \A key \in Keys(d) :
        /\ DOMAIN key = 1..2
        /\ key[1] \in BTypes /\ key[2] \in BTypes
        /\ StrLess(key[1], key[2])
        /\ key[1] # key[2]
        /\ <<key[2], key[1]>> \notin Keys(d)

\* A pair index with three keys has been built.
C1_Witness == pc = "built" /\ Cardinality(Keys(btypes_idx)) = 3

\* C2: at any point of the construction, every WordForm in ALL and in every
\* LEMMAS list of a pair (a, b) has basic type a or b.
C2_OnlyMembers ==
    \A d \in PairDicts : \A key \in Keys(d) : \A l \in ListsOf(Get(d, key)) :
        \A i \in DOMAIN l : l[i].synset = key[1] \/ l[i].synset = key[2]

\* add_wordforms has been called for an entry that also holds a WordForm of
\* a third type.
C2_Witness ==
    \E i \in DOMAIN calls :
        \E w \in Range(EntryWfs(calls[i].lemma, calls[i].fname)) :
            /\ w.synset \notin Range(calls[i].pair)
            /\ Has(data, calls[i].pair)

\* C3: for every key, ALL holds the same WordForms with the same
\* multiplicities as the LEMMAS lists together, and every WordForm of
\* LEMMAS[lemma] has that lemma.
C3_AllIsUnionOfLemmas ==
    \A d \in PairDicts : \A key \in Keys(d) :
        LET rec == Get(d, key)
            together == Concat(Values(rec.LEMMAS))
        IN  /\ Len(rec.ALL) = Len(together)
            /\ \A w \in Range(rec.ALL) \cup Range(together) :
                   Count(rec.ALL, w) = Count(together, w)
            /\ \A lemma \in Keys(rec.LEMMAS) :
                   \A w \in Range(Get(rec.LEMMAS, lemma)) : w.lemma = lemma

\* A pair with two lemmas has been built.
C3_Witness ==
    /\ pc = "built"
    /\ \E key \in Keys(btypes_idx) : Cardinality(Keys(Get(btypes_idx, key).LEMMAS)) = 2

\* C4: no key holds a basic type with a space in it, and no WordForm whose
\* basic type has a space is in any ALL or LEMMAS list.
C4_NoSpaces ==
    \A d \in PairDicts : \A key \in Keys(d) :
        /\ ~HasSpace(key[1]) /\ ~HasSpace(key[2])
        /\ \A l \in ListsOf(Get(d, key)) : \A i \in DOMAIN l : ~HasSpace(l[i].synset)

\* A pair index has been built from an entry that holds a WordForm whose
\* basic type has a space.
C4_Witness ==
    /\ pc = "built"
    /\ \E i \in DOMAIN calls :
          \E w \in Range(EntryWfs(calls[i].lemma, calls[i].fname)) : HasSpace(w.synset)

\* The add_wordforms calls made for one entry.
CallsFor(e) == {i \in DOMAIN calls : calls[i].lemma = e.lemma /\ calls[i].fname = e.fname}

\* The single basic types of the WordForms of one entry.
PlainOf(e) == {bt \in BtypesOf(EntryWfs(e.lemma, e.fname)) : ~HasSpace(bt)}

\* C5: once the pair index is built, the calls made for an entry with k
\* distinct space-free basic types are the k*(k-1)/2 pairs (a, b), a < b, of
\* those types, each once; an entry with k <= 1 has no call and none of its
\* WordForms is in any pair.
C5_PairsPerEntry ==
    pc = "built" =>
        /\ \A i \in DOMAIN calls :
               [lemma |-> calls[i].lemma, fname |-> calls[i].fname]
                   \in Range(Entries(lemma_fname_idx))
        /\ \A e \in Range(Entries(lemma_fname_idx)) :
               LET labels == PlainOf(e)
                   k == Cardinality(labels)
               IN  /\ {calls[i].pair : i \in CallsFor(e)} =
                         {p \in labels \X labels : StrLess(p[1], p[2])}
                   /\ Cardinality(CallsFor(e)) = (k * (k - 1)) \div 2
                   /\ k <= 1 =>
                         \A key \in Keys(btypes_idx) :
                             \A l \in ListsOf(Get(btypes_idx, key)) :
                                 Range(l) \cap Range(EntryWfs(e.lemma, e.fname)) = {}

\* The pair index has been built from a filtered index with an entry of
\* three single basic types.
C5_Witness ==
    /\ pc = "built"
    /\ filtered
    /\ \E e \in Range(Entries(lemma_fname_idx)) : Cardinality(PlainOf(e)) = 3

\* The positions of x in a list.
PositionsOf(l, x) == {i \in DOMAIN l : l[i] = x}

\* sub occurs in l, each element once, in the order of sub.
OnceInOrder(sub, l) ==
    /\ \A i \in DOMAIN sub : Cardinality(PositionsOf(l, sub[i])) = 1
    /\ \A i \in DOMAIN sub : \A j \in DOMAIN sub :
           i < j => \A m \in PositionsOf(l, sub[i]) : \A n \in PositionsOf(l, sub[j]) : m < n

\* C6: once the pair index is built, for every entry with WordForms of both
\* types a and b (a < b, no spaces), the WordForms of the entry typed a or b
\* are each once in ALL and once in LEMMAS[lemma] of (a, b), in the order of
\* the entry; and no WordForm is twice in any ALL list.
C6_CompleteNoDuplicates ==
    pc = "built" =>
        /\ \A e \in Range(Entries(lemma_fname_idx)) :
               \A a \in PlainOf(e) : \A b \in PlainOf(e) :
                   StrLess(a, b) =>
                       /\ Has(btypes_idx, <<a, b>>)
                       /\ Has(Get(btypes_idx, <<a, b>>).LEMMAS, e.lemma)
                       /\ LET rec == Get(btypes_idx, <<a, b>>)
                              ws == EntryWfs(e.lemma, e.fname)
                              typed(w) == w.synset = a \/ w.synset = b
                              sub == SelectSeq(ws, typed)
                          IN  /\ OnceInOrder(sub, rec.ALL)
                              /\ OnceInOrder(sub, Get(rec.LEMMAS, e.lemma))
        /\ \A key \in Keys(btypes_idx) :
               \A w \in Range(Get(btypes_idx, key).ALL) :
                   Cardinality(PositionsOf(Get(btypes_idx, key).ALL, w)) = 1

\* A pair has WordForms of one lemma from two documents.
C6_Witness ==
    /\ pc = "built"
    /\ \E key \in Keys(btypes_idx) : \E lemma \in Keys(Get(btypes_idx, key).LEMMAS) :
          Cardinality({w.fname : w \in Range(Get(Get(btypes_idx, key).LEMMAS, lemma))}) = 2

\* C7: get_pairs returns exactly the keys whose LEMMAS has at least
\* min_lemmas lemmas and whose ALL has at least min_instances WordForms,
\* each once; all keys with the defaults (1, 1); nothing before the pair
\* index is initialized.
C7_GetPairsExact ==
    result.op = "get_pairs" =>
        LET returned == Range(result.ret)
        IN  /\ returned \subseteq Keys(btypes_idx)
            /\ Len(result.ret) = Cardinality(returned)
            /\ \A key \in Keys(btypes_idx) :
                   key \in returned <=>
                       /\ Cardinality(Keys(Get(btypes_idx, key).LEMMAS)) >= result.min_lemmas
                       /\ Len(Get(btypes_idx, key).ALL) >= result.min_instances
            /\ (result.min_lemmas = 1 /\ result.min_instances = 1) =>
                   returned = Keys(btypes_idx)
            /\ pc = "indexed" => result.ret = <<>>

\* get_pairs(2, 4) has returned a pair.
C7_Witness ==
    /\ result.op = "get_pairs"
    /\ result.min_lemmas = 2 /\ result.min_instances = 4
    /\ result.ret # <<>>

\* C8: a direct lookup btypes_idx[pair] returns the record of a key that is
\* present and raises nothing for a key that is absent.
C8_LookupNeverRaises ==
    result.op = "getitem" =>
        /\ result.raised = "none"
        /\ Has(btypes_idx, result.key) => result.ret = Get(btypes_idx, result.key)

\* Two two-level indexes with the same outer keys, the same inner keys under
\* each and the same leaf lists.
SameIndex(x, y) ==
    /\ Keys(x) = Keys(y)
    /\ \A k1 \in Keys(x) :
           /\ Keys(Get(x, k1)) = Keys(Get(y, k1))
           /\ \A k2 \in Keys(Get(x, k1)) : Get(Get(x, k1), k2) = Get(Get(y, k1), k2)

\* No key occurs twice among the items of a dict.
UniqueKeys(d) == \A i \in DOMAIN d : \A j \in DOMAIN d : d[i].k = d[j].k => i = j

KeyPaths(idx) == {<<p.k1, p.k2>> : p \in Range(Paths(idx))}

\* C10: after construction and after every filter call, (d, l) is a key
\* path of fname_lemma_idx iff (l, d) is one of lemma_fname_idx, and the two
\* leaf lists hold the same WordForms in the same order.
C10_ViewsConsistent ==
    pc # "new" =>
        /\ KeyPaths(fname_lemma_idx) = {<<p[2], p[1]>> : p \in KeyPaths(lemma_fname_idx)}
        /\ \A p \in KeyPaths(lemma_fname_idx) :
               Get(Get(fname_lemma_idx, p[2]), p[1]) = Get(Get(lemma_fname_idx, p[1]), p[2])

\* The filter has run, has removed an entry and has kept another.
C10_Witness ==
    /\ filtered
    /\ lemma_fname_idx # EmptyDict
    /\ Cardinality(KeyPaths(lemma_fname_idx)) <
           Cardinality({<<w.lemma, w.fname>> : w \in Range(wfs)})

\* The WordForms of one lemma in one document that have a synset, as the
\* instance was given them.
SensesGiven(lemma, fname) ==
    {w \in Range(wfs) : w.lemma = lemma /\ w.fname = fname /\ HasSynset(w)}

\* C11: once the filter has run, (lemma, document) is an entry of
\* lemma_fname_idx iff the WordForms of that lemma in that document that
\* have a synset carry more than one distinct basic-type label; and no
\* lemma maps to an empty sub-mapping.
C11_FilterRetainsIff ==
    filtered =>
        /\ \A lemma \in Lemmas : \A fname \in Range(Fnames) :
               <<lemma, fname>> \in KeyPaths(lemma_fname_idx) <=>
                   Cardinality({w.synset : w \in SensesGiven(lemma, fname)}) > 1
        /\ \A lemma \in Keys(lemma_fname_idx) : Get(lemma_fname_idx, lemma) # EmptyDict
        /\ UniqueKeys(lemma_fname_idx)

\* The filter has kept an entry of one lemma and removed another lemma
\* whose only entry had a single label.
C11_Witness ==
    /\ filtered
    /\ lemma_fname_idx # EmptyDict
    /\ \E w \in Range(wfs) : HasSynset(w) /\ w.lemma \notin Keys(lemma_fname_idx)

\* C12: filtering is idempotent: filtering a filtered index gives the same
\* index, and a filter call on an instance already filtered leaves
\* lemma_fname_idx and fname_lemma_idx as they are.
C12_FilterIdempotent ==
    /\ [](LET once == filter_lemma_fname_index(lemma_fname_idx)
          IN  filter_lemma_fname_index(once) = once)
    /\ [][filtered => /\ lemma_fname_idx' = lemma_fname_idx
                      /\ fname_lemma_idx' = fname_lemma_idx]_vars

\* A filter call is possible on an instance whose filter has already run and
\* has kept an entry from which it removed a WordForm without a synset.
C12_Witness ==
    /\ pc = "indexed"
    /\ filtered
    /\ \E p \in KeyPaths(lemma_fname_idx) :
          \E w \in Range(wfs) : w.lemma = p[1] /\ w.fname = p[2] /\ ~HasSynset(w)

C14_LeavesMatchKeys ==
    pc # "new" =>
        LET paths == Paths(lemma_fname_idx)
        IN  /\ \A i \in DOMAIN paths : \A w \in Range(paths[i].leaf) :
                   w.lemma = paths[i].k1 /\ w.fname = paths[i].k2
            /\ \A w \in Range(wfs) :
                   /\ Cardinality({i \in DOMAIN paths : w \in Range(paths[i].leaf)}) <= 1
                   /\ \A i \in DOMAIN paths : Count(paths[i].leaf, w) <= 1

\* An index with three entries, not yet filtered.
C14_Witness ==
    /\ pc = "indexed"
    /\ ~filtered
    /\ Cardinality(KeyPaths(lemma_fname_idx)) = 3

\* The complete six-line records of a block of the mapping file.
RecordsOf(block) ==
    {SubSeq(block.lines, (n - 1) * RecordLen + 1, n * RecordLen) :
        n \in 1..(Len(block.lines) \div RecordLen)}

\* The records of the blocks of a lemma whose sense-id line, stripped, is
\* lemma%sense.
RecordsFor(lemma, sense) ==
    {r \in UNION {RecordsOf(mapping[i]) : i \in {j \in DOMAIN mapping : mapping[j].lemma = lemma}} :
        r[1].text = SenseId(lemma, sense)}

\* The Synset a record describes: ssid, category, basic types, description
\* and gloss are its second to sixth lines, stripped.
Described(r) ==
    [ssid |-> r[2].text, cat |-> r[3].text, btypes |-> r[4].text,
     description |-> r[5].text, gloss |-> r[6].text]

\* C15: once the mapping is loaded, get_synset_for_lemma(lemma, lexsn)
\* returns the Synset of the six-line record of the lemma's block whose
\* sense-id line is lemma%lexsn, its ssid and btypes being the record's
\* second and fourth lines; it returns None when the lemma has no block or
\* the block has no such record.
C15_SynsetOfRecord ==
    result.op = "get_synset_for_lemma" =>
        LET recs == RecordsFor(result.lemma, result.sense)
        IN  IF recs = {}
            THEN result.ret = None
            ELSE /\ result.ret # None
                 /\ \A r \in recs : result.ret = Some(Described(r))

\* A Synset has been returned that was read from padded lines.
C15_Witness ==
    /\ result.op = "get_synset_for_lemma"
    /\ result.ret # None
    /\ \E r \in RecordsFor(result.lemma, result.sense) : r[4].padded

\* Some block of the mapping file has a number of sense lines that is not a
\* multiple of six.
Malformed(blocks) == \E i \in DOMAIN blocks : Len(blocks[i].lines) % RecordLen # 0

\* _load has returned.
Loaded == pc \in {"resolved", "new", "indexed", "building", "built", "error"}

\* C16: loading a mapping file with a block whose sense lines are not a
\* multiple of six never completes normally: the loop does not get past
\* that block, no synset is assigned to a WordForm, and every Synset in the
\* table is one of a complete record, none made of the incomplete one.
C16_IncompleteRecordRaises ==
    Malformed(mapping) =>
        /\ ~Loaded
        /\ pc = "mappings" => Malformed(content)
        /\ \A id \in DOMAIN writes : writes[id] = 0
        /\ \A lemma \in Keys(synset_idx) : \A sense \in Keys(Get(synset_idx, lemma)) :
               \E r \in RecordsFor(lemma, sense[3]) :
                   /\ sense = r[1].text
                   /\ Get(Get(synset_idx, lemma), sense) = Described(r)

\* The load has raised IndexError at the second block of the file.
C16_Witness ==
    /\ pc = "raised"
    /\ result = [op |-> "Semcor", raised |-> "IndexError"]
    /\ Len(content) = 1
    /\ Len(mapping) = 2

\* The WordForms the instance holds are those of the compiled files, none
\* with a synset.
CorpusAsLoaded ==
    /\ files = compiled
    /\ semcor_lemma_idx = index(compiled)
    /\ \A w \in Range(AllForms(files)) : w.synset = NoSynset

\* C17: when the mapping load fails on a malformed block, the caller still
\* has the instance with the documents loaded and their lemma index, no
\* WordForm has a synset, and the mapping table has no entry of the failed
\* load.
C17_OnlyMappingLoadAborted ==
    (result.op = "Semcor" /\ result.raised = "IndexError") =>
        /\ pc # "raised"
        /\ CorpusAsLoaded
        /\ synset_idx = EmptyDict

\* A WordForm's synset has been assigned once / at least once.
AllWritten == \A id \in DOMAIN writes : writes[id] = 1
SomeWritten == \E id \in DOMAIN writes : writes[id] > 0

\* The indexes over WordForms that are built: Semcor.lemma_idx, and the
\* indexes of the IndexedWordForms instance of the common nouns.
CorpusIndexBuilt == pc \notin {"semcor", "files"}
NounIndexesBuilt == pc \in {"indexed", "building", "built", "error"}

\* Every WordForm an index of the nouns holds is a WordForm of the files,
\* with the synset the files show for it.
NounsAreForms ==
    \A l \in {wfs} \cup Range(Values(lemma_idx))
             \cup {p.leaf : p \in Range(Paths(lemma_fname_idx))}
             \cup {p.leaf : p \in Range(Paths(fname_lemma_idx))} :
        Range(l) \subseteq Range(AllForms(files))

\* What is common to C18 as stated and as amended: a synset is assigned at
\* most once to a WordForm, to every WordForm by the time _load has
\* returned, and to none before the files and the whole mapping file are
\* loaded; and it is what the table has for the lemma and lexsn.
WrittenOnce ==
    /\ \A id \in DOMAIN writes : writes[id] <= 1
    /\ Loaded => AllWritten
    /\ SomeWritten => (Loaded /\ files # <<>> /\ content = <<>> /\ ~Malformed(mapping))
    /\ AllWritten =>
           \A w \in Range(AllForms(files)) :
               w.synset = SynsetField(get_synset_for_lemma(w.lemma, w.lexsn))

TokensInOrder(paras) ==
    Concat([p \in DOMAIN paras |->
              Concat([s \in DOMAIN paras[p].sentences |-> paras[p].sentences[s].wfs])])

\* C19: after collect_forms, forms holds exactly the WordForms that have
\* both wnsn and lexsn, each once, in document order, and neither a
\* Punctuation nor a WordForm without a sense; a second call on the same
\* document gives the same list.
C19_FormsAreSensedWordForms ==
    result.op = "collect_forms" =>
        LET tokens == TokensInOrder(paragraphs)
            sensed(t) == t.kind = "wf" /\ t.wnsn # NoAttr /\ t.lexsn # NoAttr
        IN  /\ forms = SelectSeq(tokens, sensed)
            /\ \A i \in DOMAIN tokens : Count(forms, tokens[i]) = IF sensed(tokens[i]) THEN 1 ELSE 0
            /\ \A i \in DOMAIN forms : \A j \in DOMAIN forms : i < j => forms[i].id < forms[j].id

\* collect_forms has been called a second time on a document with a
\* WordForm with a sense in each paragraph and a WordForm with wnsn only.
C19_Witness ==
    /\ result.op = "collect_forms"
    /\ result.again
    /\ Len(forms) = 2
    /\ \E p \in DOMAIN paragraphs : \E s \in DOMAIN paragraphs[p].sentences :
          \E t \in Range(paragraphs[p].sentences[s].wfs) :
              t.kind = "wf" /\ t.wnsn # NoAttr /\ t.lexsn = NoAttr
    /\ \A p \in DOMAIN paragraphs : \E s \in DOMAIN paragraphs[p].sentences :
          \E t \in Range(paragraphs[p].sentences[s].wfs) : t \in Range(forms)

\* The last / the first n characters of a string, all of it if it has fewer.
LastChars(s, n) == IF n >= Len(s) THEN s ELSE SubSeq(s, Len(s) - n + 1, Len(s))
FirstChars(s, n) == IF n >= Len(s) THEN s ELSE SubSeq(s, 1, n)

\* C20: kwic(w) of the WordForm at position p, for any w >= 0, returns its
\* own text as keyword, as left the last w characters of the space-joined
\* texts before p and as right the first w characters of the space-joined
\* texts after p, so that neither is longer than w.
C20_KwicWithinWindow ==
    result.op = "kwic" =>
        LET p == result.position + 1
            w == result.context
            before == Join([i \in 1..(p - 1) |-> sent[i].text])
            after == Join([i \in 1..(Len(sent) - p) |-> sent[p + i].text])
        IN  /\ result.ret.kw = TextChars(sent[p].text)
            /\ result.ret.left = LastChars(before, w)
            /\ result.ret.right = FirstChars(after, w)
            /\ Len(result.ret.left) <= w
            /\ Len(result.ret.right) <= w

\* C21: once the indexes are built, no query or display of the browser
\* changes an index: the keys, the contents and the order of every ALL and
\* LEMMAS list and of every lemma/document leaf list stay as they are.
C21_DisplaysLeaveIndexes ==
    [][(pc = "built" /\ pc' = "built") =>
          /\ btypes_idx' = btypes_idx
          /\ lemma_idx' = lemma_idx
          /\ lemma_fname_idx' = lemma_fname_idx
          /\ fname_lemma_idx' = fname_lemma_idx]_vars


\* The sentences of a document in document order.
RECURSIVE AllSentences(_)
AllSentences(paras) ==
    IF paras = <<>> THEN <<>> ELSE Head(paras).sentences \o AllSentences(Tail(paras))

\* C22: a sentence lookup miss never propagates as a failure: get_sentence
\* returns the first sentence in document order with the sid asked for, or
\* None if no sentence has it; show_paragraph, for a file that is loaded and a
\* sentence id that no sentence of it has, reports the miss and returns
\* without raising.
C22_LookupMissHandled ==
    LET all == AllSentences(paragraphs)
        hits(sid) == {i \in DOMAIN all : all[i].sid = sid}
    IN  /\ result.op = "get_sentence" =>
              IF hits(result.sent_id) = {} THEN result.ret = None
              ELSE \E i \in hits(result.sent_id) :
                      /\ \A j \in hits(result.sent_id) : i <= j
                      /\ result.ret = Some(all[i])
        /\ (/\ result.op = "show_paragraph"
            /\ Match(result.input) # None
            /\ Match(result.input)[1].fname = LoadedName
            /\ hits(Match(result.input)[1].sent) = {}) =>
              /\ result.out.printed = <<"Could not find sentence">>
              /\ result.out.raised = "none"

\* idx has one group per key of the WordForms of input: the group of a key
\* is the list of the WordForms of input with that key, in the order of
\* input, so that it is not empty and every WordForm of input is in the
\* group of its key and in no other.
Partitions(idx, input, KeyOf(_)) ==
    /\ \A i \in DOMAIN idx : \A j \in DOMAIN idx : idx[i].k = idx[j].k => i = j
    /\ Keys(idx) = {KeyOf(input[n]) : n \in DOMAIN input}
    /\ \A i \in DOMAIN idx :
          LET ofKey(w) == KeyOf(w) = idx[i].k
          IN  idx[i].v # <<>> /\ idx[i].v = SelectSeq(input, ofKey)
    /\ Len(Concat(Values(idx))) = Len(input)
    /\ \A n \in DOMAIN input :
          Cardinality({i \in DOMAIN idx : input[n] \in Range(idx[i].v)}) = 1

LemmaOf(wf) == wf.lemma
FnameOf(wf) == wf.fname

\* C23: create_lemma_index and create_fname_index partition their input:
\* every WordForm given is in exactly one group, the one of its lemma (of
\* its sentence's file name), no group is empty, no WordForm is added or
\* lost, and the WordForms of a group are in the order of the input. It is
\* stated, once the constructor has run, of the indexes it has built with
\* them and of both applied to the whole list.
C23_IndexesPartition ==
    (pc = "indexed" /\ ~filtered) =>
          /\ Partitions(create_lemma_index(wfs), wfs, LemmaOf)
          /\ Partitions(create_fname_index(wfs), wfs, FnameOf)
          /\ Partitions(lemma_idx, wfs, LemmaOf)
          /\ Keys(lemma_fname_idx) = Keys(lemma_idx)
          /\ \A i \in DOMAIN lemma_fname_idx :
                Partitions(lemma_fname_idx[i].v, Get(lemma_idx, lemma_fname_idx[i].k), FnameOf)

\* Both lemmas in both files as constructed, a lemma's WordForms apart in
\* the list given.
C23_Witness ==
    /\ pc = "indexed"
    /\ ~filtered
    /\ Len(wfs) = 4
    /\ wfs[1].lemma = wfs[3].lemma /\ wfs[1].lemma # wfs[2].lemma
    /\ wfs[1].fname # wfs[4].fname /\ wfs[2].fname = wfs[1].fname
    /\ Len(lemma_idx) = 2
    /\ \E i \in DOMAIN lemma_fname_idx : Len(lemma_fname_idx[i].v) = 2

\* The senses a lemma has in a document: the lexical sense keys of its
\* WordForms there, as the instance was given them.
SenseKeysGiven(lemma, fname) ==
    {w.lexsn : w \in {x \in Range(wfs) : x.lemma = lemma /\ x.fname = fname}}

\* C24: once the filter has run, lemma_fname_idx keeps exactly the
\* lemma/document pairs in which the lemma has at least two senses, that is
\* two different lexical sense keys, in the document; and a WordForm is in
\* the filtered index only if the same document has another WordForm of the
\* same lemma with a different sense.
C24_KeepsLemmasWithTwoSenses ==
    filtered =>
        /\ \A lemma \in Lemmas : \A fname \in Range(Fnames) :
               <<lemma, fname>> \in KeyPaths(lemma_fname_idx) <=>
                   Cardinality(SenseKeysGiven(lemma, fname)) > 1
        /\ \A p \in Range(Paths(lemma_fname_idx)) : \A w \in Range(p.leaf) :
               \E v \in Range(wfs) :
                   v.fname = w.fname /\ v.lemma = w.lemma /\ v.lexsn # w.lexsn

\* The leaf lists of lemma_fname_idx that hold a WordForm without a synset.
SynsetlessLeaves ==
    {p \in Range(Paths(lemma_fname_idx)) : \E w \in Range(p.leaf) : ~HasSynset(w)}

\* C25: once the filter has run, every leaf list of lemma_fname_idx is the
\* list of the WordForms given for its lemma and document that have a
\* synset, in the order given, so that building the pair index from it never
\* reads the basic types of a missing synset; a Semcor instance under
\* construction builds the pair index only after the filter; and the pair
\* index is never built from an index that holds a WordForm without a
\* synset: that construction ends in an AttributeError and leaves no index.
C25_FilteredLeavesHaveSynsets ==
    /\ filtered =>
          /\ \A p \in Range(Paths(lemma_fname_idx)) :
                LET given(w) == w.lemma = p.k1 /\ w.fname = p.k2 /\ HasSynset(w)
                IN  p.leaf = SelectSeq(wfs, given)
          /\ SynsetlessLeaves = {}
          /\ pc # "error"
    /\ (~NoSemcor /\ pc \in {"building", "built", "error"}) => filtered
    /\ pc = "built" => SynsetlessLeaves = {}
    /\ pc = "error" =>
          /\ SynsetlessLeaves # {}
          /\ result = AttributeError
          /\ btypes_idx = EmptyDict

\* The pair index is built from a filtered index one of whose entries was
\* given a WordForm without a synset.
C25_Witness ==
    /\ pc = "built"
    /\ filtered
    /\ btypes_idx # EmptyDict
    /\ \E w \in Range(wfs) :
          ~HasSynset(w) /\ <<w.lemma, w.fname>> \in KeyPaths(lemma_fname_idx)

=============================================================================
